---------------------------- MODULE Spec2Model ----------------------------
(***************************************************************************)
(* A model of the gazebo crate's type-identity and coercion utilities:     *)
(*   - AnyResult, the single-slot "first write wins" result box (any.rs),  *)
(*   - ProvidesStaticType / AnyLifetime and the downcasts on               *)
(*     dyn AnyLifetime (any.rs),                                           *)
(*   - Coerce / coerce / coerce_ref (coerce.rs).                           *)
(* Each part has its own specification (SpecResult, SpecAny, SpecCoerce)   *)
(* over the part's variables; the other parts' variables stay idle.        *)
(***************************************************************************)
EXTENDS Integers, Sequences, FiniteSets, TLC

VARIABLES
    box,        \* the AnyResult: [want, want_name, result], or Gone once moved
    adds,       \* history of the add calls made on the box: <<type, value>>
    ran,        \* indexes (into adds) of the calls whose producer f was run
    rout,       \* outcome of the last result / result_ref call on the box
    mem,        \* memory words, by address
    obj,        \* the value a dynamic reference is taken of: [ty, base, content]
    dyn,        \* the &dyn AnyLifetime<'a>: [data, vtable, lt], or NoRef
    aout,       \* outcome of the last is / downcast_ref / downcast_mut call
    cx,         \* the value x handed to coerce / coerce_ref: [ty, bits, state]
    cref,       \* the reference coerce_ref returned: [ty, target], or NoRef
    cval,       \* the value coerce returned: [ty, bits], or NoVal
    cout,       \* what was last read through From / To accessors
    cvec,       \* the let mut binding of a coerced Vec and its last pop, or NoVal
    goal,       \* the last trait goal From: Coerce<To> resolved, and the answer
    flag,       \* the RefCell's borrow flag: the number of shared borrows
    guards,     \* the live ARef / Ref values, by slot
    tout        \* outcome of the last try_borrow_mut / deref call

resVars == <<box, adds, ran, rout>>
anyVars == <<mem, obj, dyn, aout>>
coVars  == <<cx, cref, cval, cout, cvec>>
proofVars == <<goal>>
cellVars  == <<flag, guards, tout>>
vars    == <<box, adds, ran, rout, mem, obj, dyn, aout, cx, cref, cval, cout,
             cvec, goal, flag, guards, tout>>

(***************************************************************************)
(* Bounds of the model.                                                    *)
(***************************************************************************)
MaxAdds == 3
MaxAddr == 3
MaxLen  == 2
MaxGuards == 2

(***************************************************************************)
(* Types.  A type instance is a record: the declared name, the lifetime    *)
(* arguments, the type arguments and the const arguments.                  *)
(***************************************************************************)
Lifetimes == {"static", "a"}

\* 'l1 : 'l2.  'static outlives every lifetime.
Outlives(l1, l2) ==
    \/ l1 = l2
    \/ l1 = "static"

Ty(n, ls, ts, cs) == [name |-> n, lts |-> ls, targs |-> ts, cargs |-> cs]

Plain(n) == Ty(n, <<>>, <<>>, <<>>)

\* T : 'static
IsStatic(t) == \A i \in DOMAIN t.lts : t.lts[i] = "static"

\* std::any::TypeId::of::<T>() for T : 'static: an injective tag of the type.
TypeIdOf(t) == <<"TypeId", t.name, t.lts, t.targs, t.cargs>>

\* std::any::type_name::<T>()
type_name(t) == t.name


(***************************************************************************)
(* Idle values of the parts a specification does not exercise.             *)
(***************************************************************************)
Gone   == [kind |-> "Gone"]
NoCall == [op |-> "none"]
NoRef  == [kind |-> "NoRef"]
NoVal  == [kind |-> "NoVal"]
NoObj  == [kind |-> "NoObj"]

ResultIdle == box = Gone /\ adds = <<>> /\ ran = {} /\ rout = NoCall
AnyIdle    == mem = <<>> /\ obj = NoObj /\ dyn = NoRef /\ aout = NoCall
CoerceIdle == cx = NoVal /\ cref = NoRef /\ cval = NoVal /\ cout = NoCall /\ cvec = NoVal
ProofIdle  == goal = NoCall
CellIdle   == flag = 0 /\ guards = <<>> /\ tout = NoCall

(***************************************************************************)
(* Option and the outcomes of a call.                                      *)
(***************************************************************************)
None      == [kind |-> "None"]
Some(v)   == [kind |-> "Some", val |-> v]
Panic(m)  == [kind |-> "panic", msg |-> m]
Unreachable == [kind |-> "unreachable"]

(***************************************************************************)
(* AnyResult (any.rs).                                                     *)
(***************************************************************************)
\* The 'static types the box is exercised at, and the values producers return.
StringTy    == Plain("String")
I32Ty       == Plain("i32")
StaticStrTy == Ty("&str", <<"static">>, <<>>, <<>>)
ResultTypes == {StringTy, StaticStrTy, I32Ty}
Values      == {"Hello", "goodbye"}

\* Box<dyn Any + Send> holding a value v of type T, and its downcasts.
BoxAny(T, v) == [kind |-> "Some", tid |-> TypeIdOf(T), val |-> v]

downcast(b, T) == IF b.tid = TypeIdOf(T) THEN Some(b.val) ELSE None

\* AnyResult::new::<T>()
new(T) == [want |-> TypeIdOf(T), want_name |-> type_name(T), result |-> None]

DifferentTypes(r, T) ==
    Panic(<<"AnyResult new/result used at different types", r.want_name, type_name(T)>>)

\* AnyResult::result::<T>(self): what the call returns, or how it ends.
ResultSkipsWantCheck(r, T) ==
    IF r.result = None THEN None
    ELSE IF downcast(r.result, T).kind = "Some" THEN downcast(r.result, T)
    ELSE Unreachable

result(r, T) ==
    IF r.want # TypeIdOf(T) THEN DifferentTypes(r, T)
    ELSE IF r.result = None THEN None
    ELSE IF downcast(r.result, T).kind = "Some" THEN downcast(r.result, T)
    ELSE Unreachable

\* AnyResult::result_ref::<T>(&self)
ResultRefWrongDefault(r, T) ==
    IF r.want # TypeIdOf(T) THEN None
    ELSE IF r.result = None THEN None
    ELSE IF downcast(r.result, T).kind = "Some" THEN downcast(r.result, T)
    ELSE Unreachable

result_ref(r, T) ==
    IF r.want # TypeIdOf(T) THEN DifferentTypes(r, T)
    ELSE IF r.result = None THEN None
    ELSE IF downcast(r.result, T).kind = "Some" THEN downcast(r.result, T)
    ELSE Unreachable

\* Whether add::<T, F>(f) runs f on the box r.
RunsProducerOnEveryMatch(r, T) == TypeIdOf(T) = r.want

RunsProducer(r, T) == TypeIdOf(T) = r.want /\ r.result = None

\* AnyResult::add::<T, F>(&mut self, f) where f() returns v: the box afterwards.
AddLastWins(r, T, v) ==
    IF TypeIdOf(T) = r.want THEN [r EXCEPT !.result = BoxAny(T, v)] ELSE r

AddAtAnyType(r, T, v) ==
    IF r.result = None THEN [r EXCEPT !.result = BoxAny(T, v)] ELSE r

add(r, T, v) ==
    IF TypeIdOf(T) = r.want
    THEN IF r.result = None THEN [r EXCEPT !.result = BoxAny(T, v)] ELSE r
    ELSE r

InitResult ==
    /\ \E T \in ResultTypes : box = new(T)
    /\ adds = <<>>
    /\ ran = {}
    /\ rout = NoCall
    /\ AnyIdle
    /\ CoerceIdle
    /\ ProofIdle
    /\ CellIdle

Add(T, v) ==
    /\ box # Gone
    /\ Len(adds) < MaxAdds
    /\ box' = add(box, T, v)
    /\ adds' = Append(adds, <<T, v>>)
    /\ ran' = IF RunsProducer(box, T) THEN ran \cup {Len(adds) + 1} ELSE ran
    /\ UNCHANGED <<rout, anyVars, coVars, proofVars, cellVars>>

\* result consumes the box; rout records the call, the number of adds made
\* before it and the slot it found.
Result(T) ==
    /\ box # Gone
    /\ rout' = [op |-> "result", ty |-> T, at |-> Len(adds), want |-> box.want,
                slot |-> box.result, ret |-> result(box, T)]
    /\ box' = Gone
    /\ UNCHANGED <<adds, ran, anyVars, coVars, proofVars, cellVars>>

\* result_ref borrows the box; a panic unwinds and the box is dropped.
ResultRef(T) ==
    /\ box # Gone
    /\ rout' = [op |-> "result_ref", ty |-> T, at |-> Len(adds), want |-> box.want,
                slot |-> box.result, ret |-> result_ref(box, T)]
    /\ box' = IF result_ref(box, T).kind = "panic" THEN Gone ELSE box
    /\ UNCHANGED <<adds, ran, anyVars, coVars, proofVars, cellVars>>

NextResult ==
    \/ \E T \in ResultTypes, v \in Values : Add(T, v)
    \/ \E T \in ResultTypes : Result(T)
    \/ \E T \in ResultTypes : ResultRef(T)

SpecResult == InitResult /\ [][NextResult]_vars

(***************************************************************************)
(* Claims about AnyResult, checked under SpecResult.                       *)
(***************************************************************************)
\* The value of the first call in the history h made at the type with
\* identity tid, as an Option.
FirstAt(h, tid) ==
    LET hits == {i \in 1..Len(h) : TypeIdOf(h[i][1]) = tid}
    IN  IF hits = {} THEN None
        ELSE Some(h[CHOOSE i \in hits : \A j \in hits : i <= j][2])

Queried  == rout.op # "none"
SameType == Queried /\ TypeIdOf(rout.ty) = rout.want
OtherType == Queried /\ TypeIdOf(rout.ty) # rout.want

\* C1: result::<T>() and result_ref::<T>() on a box made by new::<T>() return
\* the value of the first add made at T before the call, and None when there
\* was none; the slot of a live box always holds that first value, so a later
\* matching add never replaces it.
C1_FirstAddWins ==
    /\ SameType => rout.ret = FirstAt(SubSeq(adds, 1, rout.at), rout.want)
    /\ box # Gone =>
          IF box.result = None
          THEN FirstAt(adds, box.want) = None
          ELSE FirstAt(adds, box.want) = Some(box.result.val)

\* Two adds at the declared type with different values, a non-matching add,
\* and a query that returned the first of the two.
C1_Witness ==
    /\ SameType
    /\ rout.op = "result"
    /\ rout.ret.kind = "Some"
    /\ \E i, j \in 1..Len(adds) :
          /\ i < j
          /\ TypeIdOf(adds[i][1]) = rout.want
          /\ TypeIdOf(adds[j][1]) = rout.want
          /\ adds[i][2] # adds[j][2]
          /\ rout.ret.val = adds[i][2]
    /\ \E k \in 1..Len(adds) : TypeIdOf(adds[k][1]) # rout.want

\* C2: result::<U>() and result_ref::<U>() at a type U other than the type
\* given to new end in the "different types" panic, whether the slot is empty
\* or filled; they return neither a value nor None.
C2_DifferentTypesPanics ==
    OtherType =>
        /\ rout.ret.kind = "panic"
        /\ rout.ret.msg[1] = "AnyResult new/result used at different types"
        /\ rout.ret.msg[3] = type_name(rout.ty)

\* result_ref at another type on a filled box panicked.
C2_Witness ==
    /\ OtherType
    /\ rout.op = "result_ref"
    /\ rout.slot.kind = "Some"
    /\ rout.ret.kind = "panic"

\* C3 as stated: a query at a type other than the declared one is rejected
\* at compile time, so no run makes one.
C3_RejectedAtCompileTime == Queried => TypeIdOf(rout.ty) = rout.want

\* C3 as amended: a query at the declared type returns what the slot holds,
\* and a query at another type is compiled, runs, and panics.
C3_RejectedAtRunTime ==
    /\ SameType =>
          IF rout.slot = None THEN rout.ret = None
          ELSE rout.ret = Some(rout.slot.val)
    /\ OtherType => rout.ret.kind = "panic"

\* Three adds at three different types, then a result at a type that is not
\* the declared one, which ran and panicked.
C3_Witness ==
    /\ OtherType
    /\ rout.op = "result"
    /\ rout.ret.kind = "panic"
    /\ Len(adds) = 3
    /\ {adds[i][1] : i \in 1..3} = ResultTypes

\* Whether the last call of the history h is the first one made at the type
\* with identity tid.
LastIsFirstAt(h, tid) ==
    /\ TypeIdOf(h[Len(h)][1]) = tid
    /\ \A i \in 1..(Len(h) - 1) : TypeIdOf(h[i][1]) # tid

C18_SlotHasWantedType ==
    /\ box # Gone => (box.result = None \/ box.result.tid = box.want)
    /\ Queried => (rout.slot = None \/ rout.slot.tid = rout.want)
    /\ Queried => rout.ret.kind # "unreachable"

\* result_ref at the declared type took the downcast branch on a box whose
\* first add was made at another type.
C18_Witness ==
    /\ SameType
    /\ rout.op = "result_ref"
    /\ rout.slot.kind = "Some"
    /\ rout.ret = Some(rout.slot.val)
    /\ Len(adds) >= 2
    /\ TypeIdOf(adds[1][1]) # rout.want

(***************************************************************************)
(* ProvidesStaticType and AnyLifetime (any.rs).                            *)
(*                                                                         *)
(* The witnessed types of the model, by the way each gets its witness:     *)
(*   derive     #[derive(AnyLifetime)]: Value<'a>, Value2<'a>, Bbb2<'a,'b>,*)
(*              Ccc<X>, LifetimeTypeConst<'a, T, N> (the tests' types)     *)
(*   macro_lt   any_lifetime!(MacroLt<'l>), the macro's first arm          *)
(*   macro_ref  any_lifetime!(&str), the macro's second arm                *)
(*   macro_ty   any_lifetime!(String), any_lifetime!(i32), the third arm   *)
(*   manual     a hand-written ProvidesStaticType for Unified<'a> that     *)
(*              names Value<'static> as its StaticType                     *)
(*   body       a direct impl AnyLifetime for Body<'a> whose methods are   *)
(*              any_lifetime_body!(Body<'static>)                          *)
(***************************************************************************)
TypeArgs  == {"String", "i32"}
ConstArgs == {1, 2}

TypeInsts ==
         {Ty(n, <<l>>, <<>>, <<>>) :
             n \in {"Value", "Value2", "MacroLt", "&str", "Unified", "Body"},
             l \in Lifetimes}
    \cup {Ty("Bbb2", <<l1, l2>>, <<>>, <<>>) : l1 \in Lifetimes, l2 \in Lifetimes}
    \cup {Ty("Ccc", <<>>, <<x>>, <<>>) : x \in TypeArgs}
    \cup {Ty("LifetimeTypeConst", <<l>>, <<x>>, <<n>>) :
             l \in Lifetimes, x \in TypeArgs, n \in ConstArgs}
    \cup {StringTy, I32Ty}

WitnessKind(t) ==
    CASE t.name \in {"Value", "Value2", "Bbb2", "Ccc", "LifetimeTypeConst"} -> "derive"
      [] t.name = "MacroLt" -> "macro_lt"
      [] t.name = "&str" -> "macro_ref"
      [] t.name \in {"String", "i32"} -> "macro_ty"
      [] t.name = "Unified" -> "manual"
      [] t.name = "Body" -> "body"

\* The number of words a value of the type occupies: one per field.
NumFields(t) ==
    CASE t.name = "Bbb2" -> 2
      [] t.name = "LifetimeTypeConst" -> t.cargs[1]
      [] OTHER -> 1

\* #[derive(AnyLifetime)]: every lifetime parameter becomes 'static, the type
\* and const parameters stay.
DeriveStaticType(t) == [t EXCEPT !.lts = [i \in DOMAIN t.lts |-> "static"]]

\* any_lifetime!: StaticType of each of the macro's three arms.
MacroKeepsLifetime(t) == t

MacroStaticType(t) ==
    CASE WitnessKind(t) = "macro_lt"  -> Ty(t.name, <<"static">>, t.targs, t.cargs)
      [] WitnessKind(t) = "macro_ref" -> Ty(t.name, <<"static">>, t.targs, t.cargs)
      [] WitnessKind(t) = "macro_ty"  -> t

\* unsafe impl<'a> ProvidesStaticType for Unified<'a> { type StaticType = Value<'static>; }
ManualStaticType(t) == Ty("Value", <<"static">>, <<>>, <<>>)

\* <T as ProvidesStaticType>::StaticType
StaticType(t) ==
    CASE WitnessKind(t) = "derive" -> DeriveStaticType(t)
      [] WitnessKind(t) \in {"macro_lt", "macro_ref", "macro_ty"} -> MacroStaticType(t)
      [] WitnessKind(t) = "manual" -> ManualStaticType(t)

\* The type handed to any_lifetime_body! in the impl for Body<'a>.
BodyArg(t) == Ty(t.name, <<"static">>, t.targs, t.cargs)

\* AnyLifetime::static_type_id(), of the blanket impl and of any_lifetime_body!.
static_type_id(T) ==
    IF WitnessKind(T) = "body" THEN TypeIdOf(BodyArg(T))
    ELSE TypeIdOf(StaticType(T))

\* AnyLifetime::static_type_of(&self), reached through the vtable of the
\* value's type T; self is the value's content.
StaticTypeOfSelf(T, self) == TypeIdOf(T)

static_type_of(T, self) ==
    IF WitnessKind(T) = "body" THEN TypeIdOf(BodyArg(T))
    ELSE TypeIdOf(StaticType(T))

(***************************************************************************)
(* Memory, references and dyn AnyLifetime<'a>.                             *)
(***************************************************************************)
Words == {"test", "x"}
Addrs == 1..MaxAddr

\* The contents a value of type t can have: one word per field.
Contents(t) == [1..NumFields(t) -> Words]

\* A read of one word; outside the allocated words it finds no value.
Load(a) == IF a \in DOMAIN mem THEN mem[a] ELSE "uninit"

\* *p for a reference p = [addr, ty]: the fields of a ty read at addr.
Deref(p) == [i \in 1..NumFields(p.ty) |-> Load(p.addr + i - 1)]

\* T : 'a
TypeOutlives(t, a) == \A i \in DOMAIN t.lts : Outlives(t.lts[i], a)

\* <dyn AnyLifetime<'a>>::is::<T>(&self)
IsComparesLayout(d, T) == NumFields(d.vtable) = NumFields(T)

is(d, T) == static_type_of(d.vtable, Deref([addr |-> d.data, ty |-> d.vtable])) = static_type_id(T)

\* <dyn AnyLifetime<'a>>::downcast_ref::<T>(&self): the data pointer of the
\* fat pointer, typed as T.
DowncastRefKeepsVtableWord(d, T) ==
    IF is(d, T) THEN Some([addr |-> d.data + 1, ty |-> T]) ELSE None

DowncastRefUnchecked(d, T) == Some([addr |-> d.data, ty |-> T])

downcast_ref(d, T) ==
    IF is(d, T) THEN Some([addr |-> d.data, ty |-> T]) ELSE None

\* <dyn AnyLifetime<'a>>::downcast_mut::<T>(&mut self)
DowncastMutUnchecked(d, T) == Some([addr |-> d.data, ty |-> T])

downcast_mut(d, T) ==
    IF is(d, T) THEN Some([addr |-> d.data, ty |-> T]) ELSE None

InitAny ==
    /\ mem = [a \in Addrs |-> "uninit"]
    /\ obj = NoObj
    /\ dyn = NoRef
    /\ aout = NoCall
    /\ ResultIdle
    /\ CoerceIdle
    /\ ProofIdle
    /\ CellIdle

\* let v = T(..): a value of type t with content c, placed at address b.
Create(t, b, c) ==
    /\ obj = NoObj
    /\ b + NumFields(t) - 1 \in Addrs
    /\ obj' = [ty |-> t, base |-> b, content |-> c]
    /\ mem' = [a \in Addrs |->
                 IF a >= b /\ a < b + NumFields(t) THEN c[a - b + 1] ELSE mem[a]]
    /\ UNCHANGED <<dyn, aout, resVars, coVars, proofVars, cellVars>>

\* &v as &dyn AnyLifetime<'a>, which needs T : 'a.
Widen(a) ==
    /\ obj # NoObj
    /\ dyn = NoRef
    /\ TypeOutlives(obj.ty, a)
    /\ dyn' = [data |-> obj.base, vtable |-> obj.ty, lt |-> a]
    /\ UNCHANGED <<mem, obj, aout, resVars, coVars, proofVars, cellVars>>

CallStaticTypeOf ==
    /\ dyn # NoRef
    /\ aout' = [op |-> "static_type_of", U |-> dyn.vtable,
                ret |-> static_type_of(dyn.vtable, Deref([addr |-> dyn.data, ty |-> dyn.vtable]))]
    /\ UNCHANGED <<mem, obj, dyn, resVars, coVars, proofVars, cellVars>>

\* The calls on the dynamic reference, at any T : AnyLifetime<'a>.
Is(U) ==
    /\ dyn # NoRef
    /\ TypeOutlives(U, dyn.lt)
    /\ aout' = [op |-> "is", U |-> U, ret |-> is(dyn, U)]
    /\ UNCHANGED <<mem, obj, dyn, resVars, coVars, proofVars, cellVars>>

DowncastRef(U) ==
    /\ dyn # NoRef
    /\ TypeOutlives(U, dyn.lt)
    /\ aout' = [op |-> "downcast_ref", U |-> U, ret |-> downcast_ref(dyn, U)]
    /\ UNCHANGED <<mem, obj, dyn, resVars, coVars, proofVars, cellVars>>

DowncastMut(U) ==
    /\ dyn # NoRef
    /\ TypeOutlives(U, dyn.lt)
    /\ aout' = [op |-> "downcast_mut", U |-> U, ret |-> downcast_mut(dyn, U)]
    /\ UNCHANGED <<mem, obj, dyn, resVars, coVars, proofVars, cellVars>>

\* A write of word w to field i through the &mut T that downcast_mut returned.
StoreThrough(i, w) ==
    /\ aout.op = "downcast_mut"
    /\ aout.ret.kind = "Some"
    /\ i \in 1..NumFields(aout.ret.val.ty)
    /\ aout.ret.val.addr + i - 1 \in Addrs
    /\ mem' = [mem EXCEPT ![aout.ret.val.addr + i - 1] = w]
    /\ obj' = [obj EXCEPT !.content =
                 [k \in DOMAIN obj.content |-> mem'[obj.base + k - 1]]]
    /\ UNCHANGED <<dyn, aout, resVars, coVars, proofVars, cellVars>>

NextAny ==
    \/ \E t \in TypeInsts, b \in Addrs : \E c \in Contents(t) : Create(t, b, c)
    \/ \E a \in Lifetimes : Widen(a)
    \/ CallStaticTypeOf
    \/ \E U \in TypeInsts : Is(U)
    \/ \E U \in TypeInsts : DowncastRef(U)
    \/ \E U \in TypeInsts : DowncastMut(U)
    \/ \E i \in 1..MaxAddr, w \in Words : StoreThrough(i, w)

SpecAny == InitAny /\ [][NextAny]_vars

(***************************************************************************)
(* Claims about AnyLifetime and dyn AnyLifetime, checked under SpecAny.    *)
(***************************************************************************)
Called(op) == aout.op = op

\* The reference to the value itself, as created.
SelfRef == [addr |-> obj.base, ty |-> obj.ty]

\* C4: for a type whose AnyLifetime comes from the blanket impl over
\* ProvidesStaticType or from any_lifetime_body!, static_type_id::<T>() equals
\* static_type_of(&t) for every value t of T, and static_type_of gives the same
\* answer whatever the content of the value.
C4_WitnessConsistent ==
    /\ obj # NoObj =>
          \A c \in Contents(obj.ty) : static_type_of(obj.ty, c) = static_type_id(obj.ty)
    /\ Called("static_type_of") => aout.ret = static_type_id(obj.ty)

\* static_type_of was called on a Body<'a>, whose methods are any_lifetime_body!.
C4_Witness ==
    /\ Called("static_type_of")
    /\ WitnessKind(obj.ty) = "body"
    /\ ~IsStatic(obj.ty)
    /\ aout.ret = static_type_id(obj.ty)

\* What C5 says of the answer of the last call of is.
C5_IsState ==
    Called("is") =>
        /\ aout.ret = (static_type_id(aout.U) = static_type_id(obj.ty))
        /\ aout.U = obj.ty => aout.ret
        /\ aout.U.name = "Unified" /\ obj.ty.name = "Value" => aout.ret

\* C5: r.is::<U>() on a reference r to a value of type T is true exactly when
\* U and T have the same static identity: true for U = T, true for Unified, whose
\* hand-written witness names Value's static type, on a Value; and a call of is
\* changes neither the memory, the value nor the reference.
C5_IsIffSameStaticIdentity ==
    [][aout'.op = "is" /\ Is(aout'.U) => C5_IsState' /\ UNCHANGED <<mem, obj, dyn>>]_vars

\* is::<Unified<'a>>() answered true on a Value<'a>.
C5_Witness ==
    /\ Called("is")
    /\ aout.U.name = "Unified"
    /\ obj.ty.name = "Value"
    /\ aout.ret = TRUE

\* C6: at every type T, downcast_ref::<T>() and downcast_mut::<T>() return Some
\* exactly when is::<T>() is true and None otherwise, so they agree with
\* each other.
C6_DowncastsFollowIs ==
    /\ dyn # NoRef =>
          \A U \in TypeInsts :
              /\ downcast_ref(dyn, U).kind = IF is(dyn, U) THEN "Some" ELSE "None"
              /\ downcast_mut(dyn, U).kind = IF is(dyn, U) THEN "Some" ELSE "None"
    /\ Called("downcast_ref") \/ Called("downcast_mut") =>
          aout.ret.kind = IF is(dyn, aout.U) THEN "Some" ELSE "None"

\* downcast_mut returned None at a type of another name.
C6_Witness ==
    /\ Called("downcast_mut")
    /\ aout.ret = None
    /\ aout.U.name # obj.ty.name

\* C7: downcast_ref::<T>() on the widened reference to a value v of type T
\* returns Some of a reference to v: it points at v and reads v's content.
C7_DowncastRefDenotesValue ==
    Called("downcast_ref") /\ aout.U = obj.ty =>
        /\ aout.ret.kind = "Some"
        /\ aout.ret.val = SelfRef
        /\ Deref(aout.ret.val) = obj.content

\* Value("test") downcast to Value<'a>.
C7_Witness ==
    /\ Called("downcast_ref")
    /\ aout.U = obj.ty
    /\ obj.ty = Ty("Value", <<"a">>, <<>>, <<>>)
    /\ obj.content = <<"test">>
    /\ aout.ret.kind = "Some"

\* Two derived types of different names whose parameter and field lists are
\* the same, as Value<'a>(&'a str) and Value2<'a>(&'a str).
SameFieldsOtherName(t, u) ==
    /\ WitnessKind(t) = "derive"
    /\ WitnessKind(u) = "derive"
    /\ t.name # u.name
    /\ Len(t.lts) = Len(u.lts)
    /\ t.targs = u.targs
    /\ t.cargs = u.cargs
    /\ NumFields(t) = NumFields(u)

\* C8: two derived types with the same fields and different names have
\* different static identities, and a downcast of a value of one to the other
\* is None.
C8_OtherNameNeverDowncasts ==
    /\ \A t, u \in TypeInsts :
          SameFieldsOtherName(t, u) => static_type_id(t) # static_type_id(u)
    /\ (Called("downcast_ref") \/ Called("downcast_mut"))
          /\ SameFieldsOtherName(obj.ty, aout.U) => aout.ret = None

\* Value2("test") downcast to Value<'a>.
C8_Witness ==
    /\ Called("downcast_ref")
    /\ obj.ty.name = "Value2"
    /\ obj.content = <<"test">>
    /\ aout.U.name = "Value"
    /\ aout.ret = None

AllStatic(t) == [t EXCEPT !.lts = [i \in DOMAIN t.lts |-> "static"]]

DerivedOrMacro(t) ==
    WitnessKind(t) \in {"derive", "macro_lt", "macro_ref", "macro_ty"}

CString  == <<"String">>
CWrapper == <<"Wrapper">>
CBase    == {CString, CWrapper}

\* The types values are made of in the model.
CTypes ==
         CBase
    \cup {<<c, t>> : c \in {"Vec", "Box", "Container"}, t \in CBase}
    \cup {<<"Pair", t1, t2>> : t1 \in CBase, t2 \in CBase}

RECURSIVE CoerceKey(_, _)
\* From: CoerceKey<To>, by the impls of coerce.rs.
CoerceKey(From, To) ==
    CASE From[1] = "Vec" /\ To[1] = "Vec" -> CoerceKey(From[2], To[2])
      [] From[1] = "Box" /\ To[1] = "Box" -> CoerceKey(From[2], To[2])
      [] From[1] = "Pair" /\ To[1] = "Pair" ->
             CoerceKey(From[2], To[2]) /\ CoerceKey(From[3], To[3])
      [] From = CString /\ To = CString -> TRUE
      [] OTHER -> FALSE

RECURSIVE CoerceSetByPlainProof(_, _)
CoerceSetByPlainProof(From, To) ==
    CASE From[1] = "Vec" /\ To[1] = "Vec" -> CoerceSetByPlainProof(From[2], To[2])
      [] From[1] = "Box" /\ To[1] = "Box" -> CoerceSetByPlainProof(From[2], To[2])
      [] From[1] = "HashSet" /\ To[1] = "HashSet" ->
             CoerceSetByPlainProof(From[2], To[2])
      [] From[1] = "HashMap" /\ To[1] = "HashMap" ->
             CoerceSetByPlainProof(From[2], To[2])
                 /\ CoerceSetByPlainProof(From[3], To[3])
      [] From[1] = "Pair" /\ To[1] = "Pair" ->
             CoerceSetByPlainProof(From[2], To[2])
                 /\ CoerceSetByPlainProof(From[3], To[3])
      [] From = CString /\ To = CString -> TRUE
      [] From = CWrapper /\ To = CString -> TRUE
      [] From[1] = "Container" /\ To[1] = "Container" ->
             CoerceSetByPlainProof(From[2], To[2])
      [] OTHER -> FALSE

RECURSIVE CoerceReflexive(_, _)
CoerceReflexive(From, To) ==
    CASE From = To -> TRUE
      [] From[1] = "Vec" /\ To[1] = "Vec" -> CoerceReflexive(From[2], To[2])
      [] From[1] = "Box" /\ To[1] = "Box" -> CoerceReflexive(From[2], To[2])
      [] From[1] = "HashSet" /\ To[1] = "HashSet" -> CoerceKey(From[2], To[2])
      [] From[1] = "HashMap" /\ To[1] = "HashMap" ->
             CoerceKey(From[2], To[2]) /\ CoerceReflexive(From[3], To[3])
      [] From[1] = "Pair" /\ To[1] = "Pair" ->
             CoerceReflexive(From[2], To[2]) /\ CoerceReflexive(From[3], To[3])
      [] From = CWrapper /\ To = CString -> TRUE
      [] From[1] = "Container" /\ To[1] = "Container" ->
             CoerceReflexive(From[2], To[2])
      [] OTHER -> FALSE

RECURSIVE CoerceVecNeedsKey(_, _)
CoerceVecNeedsKey(From, To) ==
    CASE From[1] = "Vec" /\ To[1] = "Vec" -> CoerceKey(From[2], To[2])
      [] From[1] = "Box" /\ To[1] = "Box" -> CoerceVecNeedsKey(From[2], To[2])
      [] From[1] = "HashSet" /\ To[1] = "HashSet" -> CoerceKey(From[2], To[2])
      [] From[1] = "HashMap" /\ To[1] = "HashMap" ->
             CoerceKey(From[2], To[2]) /\ CoerceVecNeedsKey(From[3], To[3])
      [] From[1] = "Pair" /\ To[1] = "Pair" ->
             CoerceVecNeedsKey(From[2], To[2]) /\ CoerceVecNeedsKey(From[3], To[3])
      [] From = CString /\ To = CString -> TRUE
      [] From = CWrapper /\ To = CString -> TRUE
      [] From[1] = "Container" /\ To[1] = "Container" ->
             CoerceVecNeedsKey(From[2], To[2])
      [] OTHER -> FALSE

RECURSIVE Coerce(_, _)
\* From: Coerce<To>, by the impls of coerce.rs and of its doc examples
\* (Wrapper: Coerce<String>, Container<From>: Coerce<Container<To>>).
Coerce(From, To) ==
    CASE From[1] = "Vec" /\ To[1] = "Vec" -> Coerce(From[2], To[2])
      [] From[1] = "Box" /\ To[1] = "Box" -> Coerce(From[2], To[2])
      [] From[1] = "HashSet" /\ To[1] = "HashSet" -> CoerceKey(From[2], To[2])
      [] From[1] = "HashMap" /\ To[1] = "HashMap" ->
             CoerceKey(From[2], To[2]) /\ Coerce(From[3], To[3])
      [] From[1] = "Pair" /\ To[1] = "Pair" ->
             Coerce(From[2], To[2]) /\ Coerce(From[3], To[3])
      [] From = CString /\ To = CString -> TRUE
      [] From = CWrapper /\ To = CString -> TRUE
      [] From[1] = "Container" /\ To[1] = "Container" -> Coerce(From[2], To[2])
      [] OTHER -> FALSE

Strs == {"a", "b"}

\* The bit patterns of the values of a type.  Wrapper is transparent over
\* String; a Vec is its elements in order; a Container is its i32 and its T.
RECURSIVE Bits(_)
Bits(t) ==
    CASE t = CString -> Strs
      [] t = CWrapper -> Bits(CString)
      [] t[1] = "Vec" ->
             UNION {[1..n -> Bits(t[2])] : n \in 0..MaxLen}
      [] t[1] = "Box" -> {<<b>> : b \in Bits(t[2])}
      [] t[1] = "Container" -> {<<"20", b>> : b \in Bits(t[2])}
      [] t[1] = "Pair" -> {<<b1, b2>> : b1 \in Bits(t[2]), b2 \in Bits(t[3])}

\* The content of a value with bit pattern b read through the accessors of
\* type t: the strings it holds, in order (a Wrapper's through its field .0).
RECURSIVE Content(_, _)
Content(t, b) ==
    CASE t = CString -> <<"String", b>>
      [] t = CWrapper -> Content(CString, b)
      [] t[1] = "Vec" -> <<"Vec", [i \in DOMAIN b |-> Content(t[2], b[i])]>>
      [] t[1] = "Box" -> <<"Box", Content(t[2], b[1])>>
      [] t[1] = "Container" -> <<"Container", b[1], Content(t[2], b[2])>>
      [] t[1] = "Pair" -> <<"Pair", Content(t[2], b[1]), Content(t[3], b[2])>>

\* cast::transmute_unchecked::<From, To>(x): the bits of x, owned as a To.
transmute_unchecked(x, To) == [ty |-> To, bits |-> x.bits]

\* cast::ptr::<From, To>(x): the address of x, as a &To.
cast_ptr(x, To) == [ty |-> To, target |-> x.id]

\* coerce::<From, To>(x)
coerce(x, To) == transmute_unchecked(x, To)

\* coerce_ref::<From, To>(&x)
coerce_ref(x, To) == cast_ptr(x, To)

Unread == <<"unread">>

InitCoerce ==
    /\ cx = NoVal
    /\ cref = NoRef
    /\ cval = NoVal
    /\ cout = [ref |-> Unread, val |-> Unread]
    /\ cvec = NoVal
    /\ ResultIdle
    /\ AnyIdle
    /\ ProofIdle
    /\ CellIdle

\* let x: From = ..
MakeValue(From, b) ==
    /\ cx = NoVal
    /\ cx' = [id |-> "x", ty |-> From, bits |-> b, state |-> "owned"]
    /\ UNCHANGED <<cref, cval, cout, cvec, resVars, anyVars, proofVars, cellVars>>

\* let r = coerce_ref::<_, To>(&x): x is borrowed, not moved.
CoerceRefMoves(To) ==
    /\ cx # NoVal
    /\ cx.state = "owned"
    /\ cref = NoRef
    /\ Coerce(cx.ty, To)
    /\ cref' = coerce_ref(cx, To)
    /\ cx' = [cx EXCEPT !.state = "moved"]
    /\ UNCHANGED <<cval, cout, cvec, resVars, anyVars, proofVars, cellVars>>

CoerceRef(To) ==
    /\ cx # NoVal
    /\ cx.state = "owned"
    /\ cref = NoRef
    /\ Coerce(cx.ty, To)
    /\ cref' = coerce_ref(cx, To)
    /\ UNCHANGED <<cx, cval, cout, cvec, resVars, anyVars, proofVars, cellVars>>

\* A read of *r through To's accessors.
ReadRef ==
    /\ cref # NoRef
    /\ cout' = [cout EXCEPT !.ref = Content(cref.ty, cx.bits)]
    /\ UNCHANGED <<cx, cref, cval, cvec, resVars, anyVars, proofVars, cellVars>>

\* The borrow of x ends.
DropRef ==
    /\ cref # NoRef
    /\ cref' = NoRef
    /\ UNCHANGED <<cx, cval, cout, cvec, resVars, anyVars, proofVars, cellVars>>

\* let y = coerce::<_, To>(x): x is moved into the call, which needs every
\* borrow of x to have ended.
CoerceValue(To) ==
    /\ cx # NoVal
    /\ cx.state = "owned"
    /\ cref = NoRef
    /\ Coerce(cx.ty, To)
    /\ cval' = coerce(cx, To)
    /\ cx' = [cx EXCEPT !.state = "moved"]
    /\ UNCHANGED <<cref, cout, cvec, resVars, anyVars, proofVars, cellVars>>

\* A read of y through To's accessors.
ReadValue ==
    /\ cval # NoVal
    /\ cout' = [cout EXCEPT !.val = Content(cval.ty, cval.bits)]
    /\ UNCHANGED <<cx, cref, cval, cvec, resVars, anyVars, proofVars, cellVars>>

\* value.pop() on the let mut binding of a coerced Vec: Vec::pop removes and
\* returns the last element, or returns None on an empty Vec.  cvec holds the
\* binding after the pops made, the last return value read through the element
\* type, and the number of pops.
Pop ==
    /\ cval # NoVal
    /\ cval.ty[1] = "Vec"
    /\ LET cur == IF cvec = NoVal THEN cval.bits ELSE cvec.bits
           n   == IF cvec = NoVal THEN 0 ELSE cvec.pops
       IN  /\ n <= Len(cval.bits)
           /\ cvec' = [ty   |-> cval.ty,
                       bits |-> IF cur = <<>> THEN cur ELSE SubSeq(cur, 1, Len(cur) - 1),
                       ret  |-> IF cur = <<>> THEN None
                                ELSE Some(Content(cval.ty[2], cur[Len(cur)])),
                       pops |-> n + 1]
    /\ UNCHANGED <<cx, cref, cval, cout, resVars, anyVars, proofVars, cellVars>>

NextCoerce ==
    \/ \E From \in CTypes : \E b \in Bits(From) : MakeValue(From, b)
    \/ \E To \in CTypes : CoerceRef(To)
    \/ ReadRef
    \/ DropRef
    \/ \E To \in CTypes : CoerceValue(To)
    \/ ReadValue
    \/ Pop

SpecCoerce == InitCoerce /\ [][NextCoerce]_vars

(***************************************************************************)
(* Claims about coerce and coerce_ref, checked under SpecCoerce.           *)
(***************************************************************************)
\* The content of x as made, read through From's accessors.
ContentOfX == Content(cx.ty, cx.bits)

\* C10: for a proof From: Coerce<To> and a value x of From, what is read
\* through To from coerce_ref(&x), and afterwards from coerce(x), is the content
\* of x read through From; while the reference of coerce_ref lives, and after
\* it is dropped, x is still owned, so it can be coerced by value.
C10_CoercePreservesContent ==
    /\ cout.ref # Unread => cout.ref = ContentOfX
    /\ cout.val # Unread => cout.val = ContentOfX
    /\ cref # NoRef => cx.state = "owned" /\ cref.target = cx.id
    /\ cval # NoVal => cval.bits = cx.bits /\ Coerce(cx.ty, cval.ty)
    /\ cval = NoVal /\ cx # NoVal => cx.state = "owned"

\* [Wrapper("a"), Wrapper("b")] read through coerce_ref as a Vec<String>, then
\* coerced by value to a Vec<String> and read again.
C10_Witness ==
    /\ cx # NoVal
    /\ cx.ty = <<"Vec", CWrapper>>
    /\ cx.bits = <<"a", "b">>
    /\ cval # NoVal
    /\ cval.ty = <<"Vec", CString>>
    /\ cout.ref = <<"Vec", <<<<"String", "a">>, <<"String", "b">>>>>>
    /\ cout.val = cout.ref

\* The coercion of the element e of x, of type cx.ty[2], to the element type To.
CoercedElem(e, To) ==
    coerce([id |-> "e", ty |-> cx.ty[2], bits |-> e, state |-> "owned"], To)

\* C11: From: Coerce<To> gives Vec<From>: Coerce<Vec<To>>, and coerce on a Vec
\* returns a Vec of the same length whose element at each index is the coercion
\* of x's element at that index; pops then return x's elements from the last,
\* so one pop after coercing [Wrapper("a"), Wrapper("b")] returns "b" and leaves
\* length 1.
C11_VecKeepsOrderAndCount ==
    /\ \A F \in CTypes, T \in CTypes :
          Coerce(F, T) => Coerce(<<"Vec", F>>, <<"Vec", T>>)
    /\ cval # NoVal /\ cval.ty[1] = "Vec" =>
          /\ Len(cval.bits) = Len(cx.bits)
          /\ \A i \in 1..Len(cx.bits) :
                /\ cval.bits[i] = CoercedElem(cx.bits[i], cval.ty[2]).bits
                /\ Content(cval.ty[2], cval.bits[i]) = Content(cx.ty[2], cx.bits[i])
    /\ cvec # NoVal =>
          LET n == Len(cx.bits) IN
          /\ cvec.pops <= n =>
                /\ cvec.bits = SubSeq(cx.bits, 1, n - cvec.pops)
                /\ cvec.ret = Some(Content(cx.ty[2], cx.bits[n - cvec.pops + 1]))
          /\ cvec.pops > n => cvec.bits = <<>> /\ cvec.ret = None
          /\ cx.ty = <<"Vec", CWrapper>> /\ cx.bits = <<"a", "b">> /\ cvec.pops = 1 =>
                cvec.ret = Some(<<"String", "b">>) /\ Len(cvec.bits) = 1

\* [Wrapper("a"), Wrapper("b")] coerced to a Vec<String> and popped once.
C11_Witness ==
    /\ cx # NoVal
    /\ cx.ty = <<"Vec", CWrapper>>
    /\ cx.bits = <<"a", "b">>
    /\ cval # NoVal
    /\ cval.ty = <<"Vec", CString>>
    /\ cvec # NoVal
    /\ cvec.pops = 1
    /\ cvec.ret = Some(<<"String", "b">>)
    /\ Len(cvec.bits) = 1

(***************************************************************************)
(* Resolution of the goals From: Coerce<To> and From: CoerceKey<To> over   *)
(* the impls of coerce.rs (SpecProof).                                     *)
(***************************************************************************)
\* Base types: String, the doc example's Wrapper, and two primitive types.
PBase == CBase \cup {<<"i32">>, <<"bool">>}

PTypes ==
         PBase
    \cup {<<c, t>> : c \in {"Vec", "Box", "HashSet", "Container"}, t \in PBase}
    \cup {<<"Pair", t1, t2>> : t1 \in PBase, t2 \in PBase}
    \cup {<<"HashMap", k, v>> : k \in PBase, v \in PBase}

\* The impls of Coerce, each named by the shape its header is keyed on: those
\* of coerce.rs, and the two of its doc examples.
CoerceImplsWithBlanket ==
    {"Vec", "Box", "HashSet", "HashMap", "Pair", "String", "Wrapper", "Container",
     "Blanket"}

CoerceImpls ==
    {"Vec", "Box", "HashSet", "HashMap", "Pair", "String", "Wrapper", "Container"}

\* The impls of CoerceKey.
CoerceKeyImpls == {"Vec", "Box", "Pair", "String"}

\* Whether the header of an impl unifies with the goal From: Coerce<To> (or
\* CoerceKey<To>), its where clause aside.  "Blanket" is impl Coerce<T> for T,
\* which coerce.rs does not declare.
HeadMatches(i, From, To) ==
    CASE i = "String"  -> From = CString /\ To = CString
      [] i = "Wrapper" -> From = CWrapper /\ To = CString
      [] i = "Blanket" -> From = To
      [] OTHER -> From[1] = i /\ To[1] = i

MatchingImpls(From, To) == {i \in CoerceImpls : HeadMatches(i, From, To)}

MatchingKeyImpls(From, To) == {i \in CoerceKeyImpls : HeadMatches(i, From, To)}

InitProof ==
    /\ goal = NoCall
    /\ ResultIdle
    /\ AnyIdle
    /\ CoerceIdle
    /\ CellIdle

\* The compiler resolves one goal, From: Coerce<To> and From: CoerceKey<To>.
Resolve(From, To) ==
    /\ goal = NoCall
    /\ goal' = [op |-> "resolve", from |-> From, to |-> To,
                coerce |-> Coerce(From, To),
                key |-> CoerceKey(From, To),
                impls |-> MatchingImpls(From, To),
                keyimpls |-> MatchingKeyImpls(From, To)]
    /\ UNCHANGED <<resVars, anyVars, coVars, cellVars>>

NextProof == \E From \in PTypes, To \in PTypes : Resolve(From, To)

SpecProof == InitProof /\ [][NextProof]_vars

(***************************************************************************)
(* Claims about the proof rules, checked under SpecProof.                  *)
(***************************************************************************)
Resolved == goal.op = "resolve"

SetGoal == Resolved /\ goal.from[1] = "HashSet" /\ goal.to[1] = "HashSet"
MapGoal == Resolved /\ goal.from[1] = "HashMap" /\ goal.to[1] = "HashMap"

\* C12: HashSet<From>: Coerce<HashSet<To>> and HashMap<FromK, FromV>:
\* Coerce<HashMap<ToK, ToV>> hold only when the key types have a CoerceKey
\* proof; a plain Coerce proof on the keys gives no set or map proof, and a
\* plain Coerce proof on the values is enough for a map.
C12_KeysNeedCoerceKey ==
    /\ SetGoal =>
          /\ goal.coerce => CoerceKey(goal.from[2], goal.to[2])
          /\ ~CoerceKey(goal.from[2], goal.to[2]) => ~goal.coerce
    /\ MapGoal =>
          /\ goal.coerce => CoerceKey(goal.from[2], goal.to[2])
          /\ ~CoerceKey(goal.from[2], goal.to[2]) => ~goal.coerce
          /\ CoerceKey(goal.from[2], goal.to[2]) /\ Coerce(goal.from[3], goal.to[3])
                => goal.coerce

\* HashSet<Wrapper>: Coerce<HashSet<String>> does not hold, although
\* Wrapper: Coerce<String> does.
C12_Witness ==
    /\ SetGoal
    /\ goal.from = <<"HashSet", CWrapper>>
    /\ goal.to = <<"HashSet", CString>>
    /\ Coerce(CWrapper, CString)
    /\ ~goal.coerce

\* C13: for every pair (From, To) at most one impl of Coerce and at most one
\* impl of CoerceKey has a header that matches, each impl being keyed on its
\* own outermost shape; a goal that holds has exactly one.
C13_AtMostOneRule ==
    Resolved =>
        /\ Cardinality(goal.impls) <= 1
        /\ Cardinality(goal.keyimpls) <= 1
        /\ goal.coerce => Cardinality(goal.impls) = 1
        /\ goal.key => Cardinality(goal.keyimpls) = 1

\* (Wrapper, String): Coerce<(String, String)> holds, by the pair impl alone.
C13_Witness ==
    /\ Resolved
    /\ goal.from = <<"Pair", CWrapper, CString>>
    /\ goal.to = <<"Pair", CString, CString>>
    /\ goal.coerce
    /\ goal.impls = {"Pair"}

SelfGoal == Resolved /\ goal.from = goal.to

\* C14 as stated: T: Coerce<T> is predeclared for primitive types (i32, bool)
\* and for String, so that Vec<T>: Coerce<Vec<T>> for each of them.
C14_PrimitivesCoerceToSelf ==
    /\ SelfGoal /\ goal.from \in {<<"i32">>, <<"bool">>, CString} => goal.coerce
    /\ SelfGoal /\ goal.from[1] = "Vec"
          /\ goal.from[2] \in {<<"i32">>, <<"bool">>, CString} => goal.coerce

\* C14 as amended: of the base types only String has a predeclared
\* self-coercion (Coerce and CoerceKey), so Vec<String>: Coerce<Vec<String>>
\* holds through the Vec rule, while i32 and bool have no proof and neither has
\* a Vec of them.
C14_OnlyStringCoercesToSelf ==
    /\ SelfGoal /\ goal.from \in PBase =>
          /\ goal.coerce = (goal.from = CString)
          /\ goal.key = (goal.from = CString)
    /\ SelfGoal /\ goal.from[1] = "Vec" /\ goal.from[2] \in PBase =>
          goal.coerce = (goal.from[2] = CString)

\* Vec<String>: Coerce<Vec<String>> holds.
C14_Witness ==
    /\ SelfGoal
    /\ goal.from = <<"Vec", CString>>
    /\ goal.coerce
    /\ ~Coerce(<<"i32">>, <<"i32">>)

(***************************************************************************)
(* ARef (cell.rs) over one RefCell and one plain value (SpecCell).         *)
(*                                                                         *)
(* A reference denotes a part of the value it points into: the indexes of  *)
(* the fields it covers.  A guard slot holds a plain Ref taken with        *)
(* c.borrow(), or an ARef: [kind, inner, part], with two fields the        *)
(* claims are stated over: origin, the constructor the guard descends from,*)
(* and want, the fields a caller expects to read through it.               *)
(***************************************************************************)
\* The RefCell's value (the tuple (5, 'b') of the tests) and the plain value.
CellData  == <<"5", "b">>
PlainData == <<"t", "e">>
Whole     == <<1, 2>>

Slots == 1..MaxGuards
Empty == [kind |-> "Empty"]

\* The projections handed to map: |t| &t.0 and |t| &t.1.
Projections == {"fst", "snd"}

ApplyPart(f, part) == IF f = "fst" THEN <<part[1]>> ELSE <<part[2]>>

ApplyVal(f, v) == IF f = "fst" THEN <<v[1]>> ELSE <<v[2]>>

\* ARef::new_ptr(x)
new_ptr(x) == [inner |-> "Ptr", part |-> x.part]

\* ARef::new_ref(x)
NewRefKeepsPointer(x) == [inner |-> "Ptr", part |-> x.part]

new_ref(x) == [inner |-> "Ref", part |-> x.part]

\* Ref::clone, Ref::map and Ref::map_split of std, on a Ref p.
RefClone(p) == [part |-> p.part]
RefMap(p, f) == [part |-> ApplyPart(f, p.part)]
RefMapSplit(p) == <<[part |-> <<p.part[1]>>], [part |-> <<p.part[2]>>]>>

\* ARef::clone(orig)
clone(orig) ==
    IF orig.inner = "Ptr" THEN new_ptr([part |-> orig.part])
    ELSE new_ref(RefClone([part |-> orig.part]))

\* ARef::map(orig, f)
MapThroughPointer(orig, f) == new_ptr([part |-> ApplyPart(f, orig.part)])

map(orig, f) ==
    IF orig.inner = "Ptr" THEN new_ptr([part |-> ApplyPart(f, orig.part)])
    ELSE new_ref(RefMap([part |-> orig.part], f))

\* ARef::map_split(orig, f) with f splitting the value in its two fields.
map_split(orig) ==
    IF orig.inner = "Ptr"
    THEN <<new_ptr([part |-> <<orig.part[1]>>]), new_ptr([part |-> <<orig.part[2]>>])>>
    ELSE LET ab == RefMapSplit([part |-> orig.part])
         IN  <<new_ref(ab[1]), new_ref(ab[2])>>

\* <ARef as Deref>::deref: the fields read through the guard g.
deref(g) ==
    IF g.inner = "Ptr" THEN [i \in DOMAIN g.part |-> PlainData[g.part[i]]]
    ELSE [i \in DOMAIN g.part |-> CellData[g.part[i]]]

\* The RefCell's borrow flag counts the live Ref values: a guard that does not
\* hold its Ref has dropped it.
LiveRefs(gs) == Cardinality({i \in DOMAIN gs : gs[i].kind # "Empty" /\ gs[i].inner = "Ref"})

\* RefCell::try_borrow_mut().is_ok()
try_borrow_mut_ok == flag = 0

ARefGuard(a, o, w) ==
    [kind |-> "ARef", inner |-> a.inner, part |-> a.part, origin |-> o, want |-> w]

\* The guards that descend from a borrow of the RefCell.
Borrowers(gs) ==
    {i \in DOMAIN gs : gs[i].kind # "Empty" /\ gs[i].origin \in {"borrow", "new_ref"}}

InitCell ==
    /\ flag = 0
    /\ guards = [i \in Slots |-> Empty]
    /\ tout = NoCall
    /\ ResultIdle
    /\ AnyIdle
    /\ CoerceIdle
    /\ ProofIdle

Put(gs) ==
    /\ guards' = gs
    /\ flag' = LiveRefs(gs)
    /\ UNCHANGED <<tout, resVars, anyVars, coVars, proofVars>>

\* let r = c.borrow()
Borrow(i) ==
    /\ guards[i] = Empty
    /\ Put([guards EXCEPT ![i] =
               [kind |-> "Ref", inner |-> "Ref", part |-> Whole,
                origin |-> "borrow", want |-> CellData]])

\* let r = ARef::new_ref(c.borrow())
NewRef(i) ==
    /\ guards[i] = Empty
    /\ Put([guards EXCEPT ![i] = ARefGuard(new_ref([part |-> Whole]), "new_ref", CellData)])

\* let p = ARef::new_ptr(&v)
NewPtr(i) ==
    /\ guards[i] = Empty
    /\ Put([guards EXCEPT ![i] = ARefGuard(new_ptr([part |-> Whole]), "new_ptr", PlainData)])

\* let q = ARef::clone(&guards[i])
Clone(i, j) ==
    /\ guards[i].kind = "ARef"
    /\ guards[j] = Empty
    /\ Put([guards EXCEPT ![j] = ARefGuard(clone(guards[i]), guards[i].origin, guards[i].want)])

\* let p = ARef::map(p, f): the original is moved into the call.
Map(i, f) ==
    /\ guards[i].kind = "ARef"
    /\ Len(guards[i].part) = 2
    /\ Put([guards EXCEPT ![i] =
               ARefGuard(map(guards[i], f), guards[i].origin, ApplyVal(f, guards[i].want))])

\* let (a, b) = ARef::map_split(p, f): the original is moved into the call.
MapSplit(i, j) ==
    /\ guards[i].kind = "ARef"
    /\ Len(guards[i].part) = 2
    /\ guards[j] = Empty
    /\ LET ab == map_split(guards[i])
       IN  Put([guards EXCEPT
                   ![i] = ARefGuard(ab[1], guards[i].origin, <<guards[i].want[1]>>),
                   ![j] = ARefGuard(ab[2], guards[i].origin, <<guards[i].want[2]>>)])

\* mem::drop(guards[i])
Drop(i) ==
    /\ guards[i] # Empty
    /\ Put([guards EXCEPT ![i] = Empty])

\* c.try_borrow_mut().is_ok(); the RefMut, if any, is a temporary.  alive is
\* the number of guards descending from a borrow at the time of the call.
TryBorrowMut ==
    /\ tout' = [op |-> "try_borrow_mut", ok |-> try_borrow_mut_ok,
                alive |-> Cardinality(Borrowers(guards))]
    /\ UNCHANGED <<flag, guards, resVars, anyVars, coVars, proofVars>>

\* *guards[i]
DerefGuard(i) ==
    /\ guards[i].kind = "ARef"
    /\ tout' = [op |-> "deref", val |-> deref(guards[i]), want |-> guards[i].want,
                origin |-> guards[i].origin]
    /\ UNCHANGED <<flag, guards, resVars, anyVars, coVars, proofVars>>

NextCell ==
    \/ \E i \in Slots : Borrow(i)
    \/ \E i \in Slots : NewRef(i)
    \/ \E i \in Slots : NewPtr(i)
    \/ \E i \in Slots, j \in Slots : Clone(i, j)
    \/ \E i \in Slots, f \in Projections : Map(i, f)
    \/ \E i \in Slots, j \in Slots : MapSplit(i, j)
    \/ \E i \in Slots : Drop(i)
    \/ TryBorrowMut
    \/ \E i \in Slots : DerefGuard(i)

SpecCell == InitCell /\ [][NextCell]_vars

(***************************************************************************)
(* Claims about ARef, checked under SpecCell.                              *)
(***************************************************************************)
\* C15: whatever the order in which Ref-backed ARefs and plain Refs of one
\* RefCell are made and dropped, try_borrow_mut fails while one of them is
\* alive and succeeds once all are dropped.
C15_BorrowHeldWhileAlive ==
    /\ tout.op = "try_borrow_mut" => tout.ok = (tout.alive = 0)
    /\ try_borrow_mut_ok = (Borrowers(guards) = {})

\* try_borrow_mut failed with an ARef made by new_ref and a plain Ref alive.
C15_Witness ==
    /\ tout.op = "try_borrow_mut"
    /\ ~tout.ok
    /\ \E i, j \in Slots :
          /\ guards[i].kind = "ARef" /\ guards[i].origin = "new_ref"
          /\ guards[j].kind = "Ref"

\* C16: map and map_split move the borrow of the ARef they consume into their
\* results: the RefCell's flag is the number of live guards that descend from
\* a borrow (one after map, two after map_split), so it is 0 once they are all
\* dropped; an ARef that descends from new_ptr holds no borrow, and every ARef
\* dereferences to the projected part.
C16_MapKeepsBorrow ==
    /\ flag = Cardinality(Borrowers(guards))
    /\ Borrowers(guards) = {} => try_borrow_mut_ok
    /\ \A i \in Slots :
          guards[i].kind = "ARef" =>
              /\ guards[i].origin = "new_ptr" => guards[i].inner = "Ptr"
              /\ deref(guards[i]) = guards[i].want
    /\ tout.op = "deref" => tout.val = tout.want

\* The two halves of a map_split of an ARef made by new_ref, both alive.
C16_Witness ==
    /\ \E i, j \in Slots :
          /\ i # j
          /\ guards[i].kind = "ARef" /\ guards[i].origin = "new_ref"
          /\ guards[j].kind = "ARef" /\ guards[j].origin = "new_ref"
          /\ guards[i].part = <<1>>
          /\ guards[j].part = <<2>>
    /\ flag = 2
    /\ tout.op = "deref"
    /\ tout.val = <<"b">>

==========================================================================
